---- MODULE Spec2Model ----
(***************************************************************************)
(* RFID attendance relay (src/app.js): an Express server that keeps an     *)
(* in-memory ledger of attendance records (attendanceRecords) and writes   *)
(* to / reads from two Firestore collections, students and attendance.     *)
(*                                                                         *)
(* Node runs each handler on one thread: the code between two awaits is    *)
(* one atomic step.  A handler that awaits a remote call is therefore two  *)
(* (or three) actions: the step that issues the call and the continuation  *)
(* that runs when the call has completed or faulted.                       *)
(***************************************************************************)
EXTENDS Integers, Sequences, FiniteSets, TLC

\* ------------------------------------------------------------------ bounds
\* Records pushed and students registered in one run, those of the requests
\* in flight included.
MaxWrites == 3

\* --------------------------------------------------------- program constants
AllLimit == 100
LatestLimit == 10
LatestSlice == 10

\* ------------------------------------------------------------------ values
\* Requests the runtime may have in flight at the same time.
Reqs == {"r1", "r2"}

\* A body field that is missing or empty: falsy in JavaScript.
Absent == ""
Falsy(v) == v = Absent

\* null is the empty sequence, a value v that may be null is <<v>>.
Null == << >>
Some(v) == << v >>

\* new Date().toISOString() and FieldValue.serverTimestamp()
ServerNow == "now"
ServerTimestamp == "serverTimestamp"

\* Request bodies of POST /attendance.
AttendanceBodies ==
  { [cardId |-> "CARD1", time |-> "T1"],
    [cardId |-> "CARDX", time |-> Absent],
    [cardId |-> Absent, time |-> "T1"] }

\* Request bodies of POST /students/register.
RegisterBodies ==
  { [cardId |-> "CARD1", name |-> "Ann", studentClass |-> "5A", rollNumber |-> "R1"],
    [cardId |-> "CARD1", name |-> "Bob", studentClass |-> Absent, rollNumber |-> Absent],
    [cardId |-> Absent, name |-> "Ann", studentClass |-> "5A", rollNumber |-> "R1"],
    [cardId |-> "CARD1", name |-> Absent, studentClass |-> "5A", rollNumber |-> "R1"] }

\* The names of RegisterBodies in ascending (string) order.
NameOrder == << "Ann", "Bob" >>

\* ------------------------------------------------------------------- state
VARIABLES
  attendanceRecords, \* the in-memory ledger (let attendanceRecords = [])
  students,          \* the students collection, in the order a query returns it
  attendance,        \* the attendance collection, in createdAt order
  pc,                \* per request: "idle" or the await the handler is suspended at
  locals,            \* per request: the handler's local variables; with them,
                     \* as history, `registered`: how many students were
                     \* registered when an ingestion request arrived
  lastResp,          \* the response the step just taken has sent, if any
  created,           \* history: the ids of the records pushed so far, in order
  sinceClear         \* history: "none", or what has happened since the last clear

vars == << attendanceRecords, students, attendance, pc, locals,
           lastResp, created, sinceClear >>

NoLocals == [none |-> TRUE]
NoResponse == [route |-> "none", status |-> 0, success |-> FALSE]

\* -------------------------------------------------------- sequence helpers
Min(a, b) == IF a <= b THEN a ELSE b

\* Array.prototype.reverse
Reverse(s) == [i \in 1..Len(s) |-> s[Len(s) - i + 1]]

\* The first n elements: Query.limit(n)
Limit(s, n) == SubSeq(s, 1, Min(n, Len(s)))

\* slice(0, n) where slice(-n) was meant: the first n elements.
SliceFirst(s, n) == SubSeq(s, 1, Min(n, Len(s)))

\* Array.prototype.slice(-n): the last n elements, all of them when fewer.
SliceLast(s, n) == SubSeq(s, Len(s) - Min(n, Len(s)) + 1, Len(s))

InsertAt(s, pos, x) == SubSeq(s, 1, pos - 1) \o << x >> \o SubSeq(s, pos, Len(s))

\* Requests suspended at the await of getStudentDetails.
AwaitingLookup == { r \in Reqs : pc[r] = "lookup" }

\* What the run has written, or is about to write, so far.
Writes ==
  Len(created) + Len(students)
    + Cardinality({ r \in Reqs : pc[r] \in {"lookup", "register"} })

\* ----------------------------------------------------------------- helpers
\* A resolver that takes the last matching document instead of the first.
GetStudentDetailsLastMatch(cardId, fault) ==
  LET docs == SelectSeq(students, LAMBDA d : d.cardId = cardId)
  IN  IF fault \/ Len(docs) = 0 THEN Null ELSE Some(docs[Len(docs)])

\* getStudentDetails: the first document whose cardId equals cardId, null
\* when there is none or when the query throws.
GetStudentDetails(cardId, fault) ==
  LET docs == SelectSeq(students, LAMBDA d : d.cardId = cardId)
  IN  IF fault \/ Len(docs) = 0 THEN Null ELSE Some(docs[1])

UnknownStudent == [name |-> "Unknown Student", class |-> "N/A"]

\* A record numbered from zero.
NewRecordFromZero(cardId, timestamp, student) ==
  [ id |-> Len(attendanceRecords),
    cardId |-> cardId,
    timestamp |-> timestamp,
    recordedAt |-> ServerNow,
    student |-> IF student = Null THEN UnknownStudent ELSE student[1] ]

\* A record numbered after the documents of the remote collection.
NewRecordRemoteCount(cardId, timestamp, student) ==
  [ id |-> Len(attendance) + 1,
    cardId |-> cardId,
    timestamp |-> timestamp,
    recordedAt |-> ServerNow,
    student |-> IF student = Null THEN UnknownStudent ELSE student[1] ]

\* The record the handler builds after the lookup.
NewRecord(cardId, timestamp, student) ==
  [ id |-> Len(attendanceRecords) + 1,
    cardId |-> cardId,
    timestamp |-> timestamp,
    recordedAt |-> ServerNow,
    student |-> IF student = Null THEN UnknownStudent ELSE student[1] ]

\* The document saveToFirebase adds to the attendance collection.
AttendanceDoc(docId, cardId, timestamp, student) ==
  [ id |-> docId,
    cardId |-> cardId,
    timestamp |-> timestamp,
    studentId |-> IF student = Null THEN Null ELSE Some(student[1].id),
    studentName |-> IF student = Null THEN "Unknown" ELSE student[1].name,
    class |-> IF student = Null THEN "N/A" ELSE student[1].class,
    createdAt |-> ServerTimestamp ]

\* ------------------------------------------------------------------- Init
Init ==
  /\ attendanceRecords = << >>
  /\ students = << >>
  /\ attendance = << >>
  /\ pc = [r \in Reqs |-> "idle"]
  /\ locals = [r \in Reqs |-> NoLocals]
  /\ lastResp = NoResponse
  /\ created = << >>
  /\ sinceClear = "none"

\* A handler without the cardId check: every body goes on to the lookup.
PostAttendanceUnchecked(r, body) ==
  /\ lastResp = NoResponse
  /\ pc[r] = "idle"
  /\ Writes < MaxWrites
  /\ pc' = [pc EXCEPT ![r] = "lookup"]
  /\ locals' = [locals EXCEPT ![r] =
                  [ cardId |-> body.cardId,
                    timestamp |-> IF Falsy(body.time) THEN ServerNow
                                  ELSE body.time,
                    registered |-> Len(students) ]]
  /\ sinceClear' = "none"
  /\ lastResp' = NoResponse
  /\ UNCHANGED << attendanceRecords, students, attendance, created >>

\* A continuation that keeps only the records of known students.
GetStudentDetailsReturnKnownOnly(r, fault) ==
  /\ lastResp = NoResponse
  /\ pc[r] = "lookup"
  /\ LET student == GetStudentDetails(locals[r].cardId, fault)
         record == NewRecord(locals[r].cardId, locals[r].timestamp, student)
     IN  /\ attendanceRecords' = IF student = Null THEN attendanceRecords
                                 ELSE Append(attendanceRecords, record)
         /\ created' = IF student = Null THEN created
                       ELSE Append(created, record.id)
         /\ locals' = [locals EXCEPT ![r] =
                         [ cardId |-> locals[r].cardId,
                           timestamp |-> locals[r].timestamp,
                           student |-> student,
                           record |-> record ]]
  /\ pc' = [pc EXCEPT ![r] = "save"]
  /\ lastResp' = NoResponse
  /\ UNCHANGED << students, attendance, sinceClear >>

\* --------------------------------------------------------- POST /attendance
\* Lines 113-131: validation, timestamp, and the call of getStudentDetails.
PostAttendance(r, body) ==
  /\ lastResp = NoResponse
  /\ pc[r] = "idle"
  /\ IF Falsy(body.cardId)
     THEN /\ lastResp' = [ route |-> "POST /attendance", status |-> 400,
                           success |-> FALSE, message |-> "cardId is required" ]
          /\ UNCHANGED << attendanceRecords, students, attendance, pc,
                          locals, created, sinceClear >>
     ELSE /\ Writes < MaxWrites
          /\ pc' = [pc EXCEPT ![r] = "lookup"]
          /\ locals' = [locals EXCEPT ![r] =
                          [ cardId |-> body.cardId,
                            timestamp |-> IF Falsy(body.time) THEN ServerNow
                                          ELSE body.time,
                            registered |-> Len(students) ]]
          /\ sinceClear' = "none"
          /\ lastResp' = NoResponse
          /\ UNCHANGED << attendanceRecords, students, attendance, created >>

\* Lines 131-146: getStudentDetails has returned; the record is built and
\* pushed, and saveToFirebase is called.
GetStudentDetailsReturn(r, fault) ==
  /\ lastResp = NoResponse
  /\ pc[r] = "lookup"
  /\ LET student == GetStudentDetails(locals[r].cardId, fault)
         record == NewRecord(locals[r].cardId, locals[r].timestamp, student)
     IN  /\ attendanceRecords' = Append(attendanceRecords, record)
         /\ created' = Append(created, record.id)
         /\ locals' = [locals EXCEPT ![r] =
                         [ cardId |-> locals[r].cardId,
                           timestamp |-> locals[r].timestamp,
                           student |-> student,
                           record |-> record ]]
  /\ pc' = [pc EXCEPT ![r] = "save"]
  /\ lastResp' = NoResponse
  /\ UNCHANGED << students, attendance, sinceClear >>

\* A continuation whose remote write is carried out twice.
SaveToFirebaseReturnTwice(r, fault) ==
  /\ lastResp = NoResponse
  /\ pc[r] = "save"
  /\ LET docId == Len(attendance) + 1
         doc(i) == AttendanceDoc(i, locals[r].cardId, locals[r].timestamp,
                                 locals[r].student)
         firebaseId == IF fault THEN Null ELSE Some(docId + 1)
     IN  /\ attendance' =
              IF fault THEN attendance
              ELSE attendance \o << doc(docId), doc(docId + 1) >>
         /\ lastResp' =
              [ route |-> "POST /attendance", status |-> 201, success |-> TRUE,
                message |-> "Attendance recorded successfully",
                data |-> [ id |-> locals[r].record.id,
                           cardId |-> locals[r].record.cardId,
                           timestamp |-> locals[r].record.timestamp,
                           recordedAt |-> locals[r].record.recordedAt,
                           student |-> locals[r].record.student,
                           firebaseId |-> firebaseId ] ]
  /\ pc' = [pc EXCEPT ![r] = "idle"]
  /\ locals' = [locals EXCEPT ![r] = NoLocals]
  /\ UNCHANGED << attendanceRecords, students, created, sinceClear >>

\* Lines 88-102 and 146-169: saveToFirebase has returned the new document's
\* id, or null after a fault; the 201 response is sent either way.
SaveToFirebaseReturn(r, fault) ==
  /\ lastResp = NoResponse
  /\ pc[r] = "save"
  /\ LET docId == Len(attendance) + 1
         firebaseId == IF fault THEN Null ELSE Some(docId)
     IN  /\ attendance' =
              IF fault THEN attendance
              ELSE Append(attendance,
                          AttendanceDoc(docId, locals[r].cardId,
                                        locals[r].timestamp, locals[r].student))
         /\ lastResp' =
              [ route |-> "POST /attendance", status |-> 201, success |-> TRUE,
                message |-> "Attendance recorded successfully",
                data |-> [ id |-> locals[r].record.id,
                           cardId |-> locals[r].record.cardId,
                           timestamp |-> locals[r].record.timestamp,
                           recordedAt |-> locals[r].record.recordedAt,
                           student |-> locals[r].record.student,
                           firebaseId |-> firebaseId ] ]
  /\ pc' = [pc EXCEPT ![r] = "idle"]
  /\ locals' = [locals EXCEPT ![r] = NoLocals]
  /\ UNCHANGED << attendanceRecords, students, created, sinceClear >>

\* ---------------------------------------------------------- GET /attendance
\* What a query's snapshot yields for each document: { id: doc.id, ...doc.data() }.
\* The collections hold their documents in that shape.
NewestFirst(docs) == Reverse(docs)

\* Lines 176-182: the query is issued.
GetAttendance(r) ==
  /\ lastResp = NoResponse
  /\ pc[r] = "idle"
  /\ pc' = [pc EXCEPT ![r] = "all"]
  /\ lastResp' = NoResponse
  /\ UNCHANGED << attendanceRecords, students, attendance, locals,
                  created, sinceClear >>

\* Lines 184-207: the newest AllLimit documents, or the ledger after a fault.
GetAttendanceReturn(r, fault) ==
  /\ lastResp = NoResponse
  /\ pc[r] = "all"
  /\ lastResp' =
       IF fault
       THEN [ route |-> "GET /attendance", status |-> 200, success |-> TRUE,
              count |-> Len(attendanceRecords), data |-> attendanceRecords,
              source |-> "memory" ]
       ELSE LET records == Limit(NewestFirst(attendance), AllLimit)
            IN  [ route |-> "GET /attendance", status |-> 200, success |-> TRUE,
                  count |-> Len(records), data |-> records,
                  source |-> "firebase" ]
  /\ pc' = [pc EXCEPT ![r] = "idle"]
  /\ UNCHANGED << attendanceRecords, students, attendance, locals,
                  created, sinceClear >>

\* --------------------------------------------------- GET /attendance/latest
\* Lines 214-220.
GetLatest(r) ==
  /\ lastResp = NoResponse
  /\ pc[r] = "idle"
  /\ pc' = [pc EXCEPT ![r] = "latest"]
  /\ lastResp' = NoResponse
  /\ UNCHANGED << attendanceRecords, students, attendance, locals,
                  created, sinceClear >>

\* Lines 222-243: the newest LatestLimit documents, or after a fault
\* attendanceRecords.slice(-10).reverse().
GetLatestReturn(r, fault) ==
  /\ lastResp = NoResponse
  /\ pc[r] = "latest"
  /\ LET records == IF fault
                    THEN Reverse(SliceLast(attendanceRecords, LatestSlice))
                    ELSE Limit(NewestFirst(attendance), LatestLimit)
     IN  lastResp' = [ route |-> "GET /attendance/latest", status |-> 200,
                       success |-> TRUE, count |-> Len(records),
                       data |-> records ]
  /\ pc' = [pc EXCEPT ![r] = "idle"]
  /\ UNCHANGED << attendanceRecords, students, attendance, locals,
                  created, sinceClear >>

\* ---------------------------------------------------- GET /attendance/today
\* Lines 250-259: today 00:00 is taken from the server's clock before the
\* query is issued.  The attendance collection is in createdAt order, so the
\* instant is given as the number of documents created before it.
GetToday(r, today) ==
  /\ lastResp = NoResponse
  /\ pc[r] = "idle"
  /\ today \in 0..Len(attendance)
  /\ pc' = [pc EXCEPT ![r] = "today"]
  /\ locals' = [locals EXCEPT ![r] = [today |-> today]]
  /\ lastResp' = NoResponse
  /\ UNCHANGED << attendanceRecords, students, attendance,
                  created, sinceClear >>

\* A continuation that falls back to the ledger as GET /attendance does.
GetTodayReturnFallback(r, fault) ==
  /\ lastResp = NoResponse
  /\ pc[r] = "today"
  /\ lastResp' =
       IF fault
       THEN [ route |-> "GET /attendance/today", status |-> 200,
              success |-> TRUE, count |-> Len(attendanceRecords),
              data |-> attendanceRecords ]
       ELSE LET records == NewestFirst(SubSeq(attendance, locals[r].today + 1,
                                              Len(attendance)))
            IN  [ route |-> "GET /attendance/today", status |-> 200,
                  success |-> TRUE, count |-> Len(records), data |-> records ]
  /\ pc' = [pc EXCEPT ![r] = "idle"]
  /\ locals' = [locals EXCEPT ![r] = NoLocals]
  /\ UNCHANGED << attendanceRecords, students, attendance, created, sinceClear >>

\* Lines 261-280: the documents created since then, newest first; 500 after
\* a fault.
GetTodayReturn(r, fault) ==
  /\ lastResp = NoResponse
  /\ pc[r] = "today"
  /\ lastResp' =
       IF fault
       THEN [ route |-> "GET /attendance/today", status |-> 500,
              success |-> FALSE,
              message |-> "Failed to fetch today's attendance" ]
       ELSE LET records == NewestFirst(SubSeq(attendance, locals[r].today + 1,
                                              Len(attendance)))
            IN  [ route |-> "GET /attendance/today", status |-> 200,
                  success |-> TRUE, count |-> Len(records), data |-> records ]
  /\ pc' = [pc EXCEPT ![r] = "idle"]
  /\ locals' = [locals EXCEPT ![r] = NoLocals]
  /\ UNCHANGED << attendanceRecords, students, attendance,
                  created, sinceClear >>

\* -------------------------------------------------- POST /students/register
\* A document that drops the class of the request.
StudentDocNoClass(docId, body) ==
  [ id |-> docId,
    cardId |-> body.cardId,
    name |-> body.name,
    class |-> "N/A",
    rollNumber |-> IF Falsy(body.rollNumber) THEN "N/A" ELSE body.rollNumber,
    registeredAt |-> ServerTimestamp ]

\* The document the handler adds to the students collection.
StudentDoc(docId, body) ==
  [ id |-> docId,
    cardId |-> body.cardId,
    name |-> body.name,
    class |-> IF Falsy(body.studentClass) THEN "N/A" ELSE body.studentClass,
    rollNumber |-> IF Falsy(body.rollNumber) THEN "N/A" ELSE body.rollNumber,
    registeredAt |-> ServerTimestamp ]

\* Lines 287-305: validation and the call of studentsRef.add.
RegisterStudent(r, body) ==
  /\ lastResp = NoResponse
  /\ pc[r] = "idle"
  /\ IF Falsy(body.cardId) \/ Falsy(body.name)
     THEN /\ lastResp' = [ route |-> "POST /students/register", status |-> 400,
                           success |-> FALSE,
                           message |-> "cardId and name are required" ]
          /\ UNCHANGED << pc, locals >>
     ELSE /\ Writes < MaxWrites
          /\ pc' = [pc EXCEPT ![r] = "register"]
          /\ locals' = [locals EXCEPT ![r] = body]
          /\ lastResp' = NoResponse
  /\ UNCHANGED << attendanceRecords, students, attendance,
                  created, sinceClear >>

\* Lines 299-324: add has returned or thrown.  Firestore names the document;
\* a query without orderBy returns documents by name, so the new document
\* may stand anywhere among the others.
RegisterStudentReturn(r, fault) ==
  /\ lastResp = NoResponse
  /\ pc[r] = "register"
  /\ IF fault
     THEN /\ lastResp' = [ route |-> "POST /students/register", status |-> 500,
                           success |-> FALSE,
                           message |-> "Failed to register student" ]
          /\ UNCHANGED students
     ELSE /\ LET docId == Len(students) + 1
             IN  /\ \E pos \in 1..(Len(students) + 1) :
                       students' = InsertAt(students, pos,
                                            StudentDoc(docId, locals[r]))
                 /\ lastResp' =
                      [ route |-> "POST /students/register", status |-> 201,
                        success |-> TRUE,
                        message |-> "Student registered successfully",
                        data |-> [ id |-> docId, cardId |-> locals[r].cardId,
                                   name |-> locals[r].name ] ]
  /\ pc' = [pc EXCEPT ![r] = "idle"]
  /\ locals' = [locals EXCEPT ![r] = NoLocals]
  /\ UNCHANGED << attendanceRecords, attendance, created,
                  sinceClear >>

\* ------------------------------------------------------------ GET /students
\* orderBy('name'): ascending by name, documents of one name in store order.
RECURSIVE OrderByName(_, _)
OrderByName(docs, names) ==
  IF names = << >> THEN << >>
  ELSE SelectSeq(docs, LAMBDA d : d.name = Head(names))
         \o OrderByName(docs, Tail(names))

\* Lines 331-334.
GetStudents(r) ==
  /\ lastResp = NoResponse
  /\ pc[r] = "idle"
  /\ pc' = [pc EXCEPT ![r] = "students"]
  /\ lastResp' = NoResponse
  /\ UNCHANGED << attendanceRecords, students, attendance, locals,
                  created, sinceClear >>

\* Lines 336-355.
GetStudentsReturn(r, fault) ==
  /\ lastResp = NoResponse
  /\ pc[r] = "students"
  /\ lastResp' =
       IF fault
       THEN [ route |-> "GET /students", status |-> 500, success |-> FALSE,
              message |-> "Failed to fetch students" ]
       ELSE LET list == OrderByName(students, NameOrder)
            IN  [ route |-> "GET /students", status |-> 200, success |-> TRUE,
                  count |-> Len(list), data |-> list ]
  /\ pc' = [pc EXCEPT ![r] = "idle"]
  /\ UNCHANGED << attendanceRecords, students, attendance, locals,
                  created, sinceClear >>

\* --------------------------------------------------- DELETE /attendance/clear
\* A handler that reads the length after it has emptied the ledger.
ClearAttendanceCountAfter ==
  /\ lastResp = NoResponse
  /\ attendanceRecords' = << >>
  /\ LET count == Len(attendanceRecords')
     IN  lastResp' = [ route |-> "DELETE /attendance/clear", status |-> 200,
                       success |-> TRUE,
                       message |-> << "Cleared", count,
                                      "local records (Firebase data unchanged)" >> ]
  /\ sinceClear' = IF AwaitingLookup = {} THEN "quiet" ELSE "pending"
  /\ UNCHANGED << students, attendance, pc, locals, created >>

\* Lines 362-372: synchronous, no await.  The message is the template
\* `Cleared ${count} local records (Firebase data unchanged)`.
ClearAttendance ==
  /\ lastResp = NoResponse
  /\ LET count == Len(attendanceRecords)
     IN  lastResp' = [ route |-> "DELETE /attendance/clear", status |-> 200,
                       success |-> TRUE,
                       message |-> << "Cleared", count,
                                      "local records (Firebase data unchanged)" >> ]
  /\ attendanceRecords' = << >>
  /\ sinceClear' = IF AwaitingLookup = {} THEN "quiet" ELSE "pending"
  /\ UNCHANGED << students, attendance, pc, locals, created >>

\* ---------------------------------------------------------------- GET /test
\* Lines 378-384.
Test ==
  /\ lastResp = NoResponse
  /\ lastResp' = [ route |-> "GET /test", status |-> 200, success |-> TRUE,
                   message |-> "Server is running!", timestamp |-> ServerNow ]
  /\ UNCHANGED << attendanceRecords, students, attendance, pc, locals,
                  created, sinceClear >>

\* ------------------------------------------------------------ specification
Handle ==
  \/ \E r \in Reqs, body \in AttendanceBodies : PostAttendance(r, body)
  \/ \E r \in Reqs, fault \in BOOLEAN : GetStudentDetailsReturn(r, fault)
  \/ \E r \in Reqs, fault \in BOOLEAN : SaveToFirebaseReturn(r, fault)
  \/ \E r \in Reqs : GetAttendance(r)
  \/ \E r \in Reqs, fault \in BOOLEAN : GetAttendanceReturn(r, fault)
  \/ \E r \in Reqs : GetLatest(r)
  \/ \E r \in Reqs, fault \in BOOLEAN : GetLatestReturn(r, fault)
  \/ \E r \in Reqs, today \in 0..MaxWrites : GetToday(r, today)
  \/ \E r \in Reqs, fault \in BOOLEAN : GetTodayReturn(r, fault)
  \/ \E r \in Reqs, body \in RegisterBodies : RegisterStudent(r, body)
  \/ \E r \in Reqs, fault \in BOOLEAN : RegisterStudentReturn(r, fault)
  \/ \E r \in Reqs : GetStudents(r)
  \/ \E r \in Reqs, fault \in BOOLEAN : GetStudentsReturn(r, fault)
  \/ ClearAttendance
  \/ Test

\* The client takes the response off the wire.  Every handler step waits for
\* that (lastResp = NoResponse): the server never reads a response it has
\* sent, so the order of a delivery and the next step changes nothing.
ResponseDelivered ==
  /\ lastResp # NoResponse
  /\ lastResp' = NoResponse
  /\ UNCHANGED << attendanceRecords, students, attendance, pc, locals,
                  created, sinceClear >>

Next == Handle \/ ResponseDelivered

Spec == Init /\ [][Next]_vars

\* ------------------------------------------------------ a server with history
\* The state after n requests { cardId: "CARDX" } were served one after the
\* other with the remote store up and no student registered: long enough a
\* history for limit(100), limit(10) and slice(-10) to cut something off.
Preloads == { 0, LatestSlice + 1, AllLimit + 1 }

LoadedRecord(i) ==
  [ id |-> i, cardId |-> "CARDX", timestamp |-> ServerNow,
    recordedAt |-> ServerNow, student |-> UnknownStudent ]

InitLoaded ==
  \E n \in Preloads :
    /\ attendanceRecords = [i \in 1..n |-> LoadedRecord(i)]
    /\ attendance = [i \in 1..n |-> AttendanceDoc(i, "CARDX", ServerNow, Null)]
    /\ created = [i \in 1..n |-> i]
    /\ students = << >>
    /\ pc = [r \in Reqs |-> "idle"]
    /\ locals = [r \in Reqs |-> NoLocals]
    /\ lastResp = NoResponse
    /\ sinceClear = "none"

SpecLoaded == InitLoaded /\ [][Next]_vars

\* ------------------------------------------------------------------ fairness
\* A remote call completes or faults, and the event loop then runs the
\* continuation that awaits it; a response sent is delivered.
Continue(r) ==
  \E fault \in BOOLEAN :
    \/ GetStudentDetailsReturn(r, fault)
    \/ SaveToFirebaseReturn(r, fault)
    \/ GetAttendanceReturn(r, fault)
    \/ GetLatestReturn(r, fault)
    \/ GetTodayReturn(r, fault)
    \/ RegisterStudentReturn(r, fault)
    \/ GetStudentsReturn(r, fault)

FairSpec ==
  /\ Spec
  /\ WF_vars(ResponseDelivered)
  /\ \A r \in Reqs : SF_vars(Continue(r))

\* ===================================================================== claims
\* The record pushed by the step just taken.
LastPushed == attendanceRecords'[Len(attendanceRecords')]

\* The positions of the student documents with the card of request r.
Matches(r) == { i \in 1..Len(students) : students[i].cardId = locals[r].cardId }

\* C1: every POST /attendance with a cardId pushes exactly one record onto the
\* ledger, in the continuation of its lookup and whatever the lookup and the
\* remote write do; the request is answered 201 with success:true, and with
\* no remote id when the remote write faulted.
C1_OnePushPerIngestion ==
  [][\A r \in Reqs :
       /\ (pc[r] = "idle" /\ pc'[r] = "lookup")
            => attendanceRecords' = attendanceRecords
       /\ pc[r] = "lookup" => pc'[r] \in {"lookup", "save"}
       /\ (pc[r] = "lookup" /\ pc'[r] = "save")
            => /\ Len(attendanceRecords') = Len(attendanceRecords) + 1
               /\ SubSeq(attendanceRecords', 1, Len(attendanceRecords))
                    = attendanceRecords
               /\ LastPushed.cardId = locals[r].cardId
       /\ pc[r] = "save" => pc'[r] \in {"save", "idle"}
       /\ (pc[r] = "save" /\ pc'[r] = "idle")
            => /\ attendanceRecords' = attendanceRecords
               /\ lastResp'.route = "POST /attendance"
               /\ lastResp'.status = 201
               /\ lastResp'.success
               /\ attendance' = attendance => lastResp'.data.firebaseId = Null
    ]_vars

\* The 201 of an ingestion whose lookup found nobody and whose remote write
\* faulted: the record is in the ledger, nothing is in the remote store.
C1_Witness ==
  /\ lastResp.route = "POST /attendance"
  /\ lastResp.status = 201
  /\ lastResp.data.firebaseId = Null
  /\ lastResp.data.student = UnknownStudent
  /\ Len(attendanceRecords) = 1
  /\ attendance = << >>

\* C2: a POST /attendance without cardId and a POST /students/register
\* without cardId or name are answered 400 with success:false and change
\* nothing: not the ledger, not the collections, and no remote call is
\* issued (no request is left awaiting one), whatever else is in flight.
C2_RejectionHasNoEffect ==
  [][/\ \A r \in Reqs, body \in AttendanceBodies :
          (Falsy(body.cardId) /\ PostAttendance(r, body))
            => /\ lastResp'.status = 400
               /\ ~lastResp'.success
               /\ UNCHANGED << attendanceRecords, students, attendance, pc,
                               locals, created >>
     /\ \A r \in Reqs, body \in RegisterBodies :
          ((Falsy(body.cardId) \/ Falsy(body.name)) /\ RegisterStudent(r, body))
            => /\ lastResp'.status = 400
               /\ ~lastResp'.success
               /\ UNCHANGED << attendanceRecords, students, attendance, pc,
                               locals, created >>
    ]_vars

\* A rejected POST /attendance while the ledger holds a record and another
\* request is in flight.
C2_Witness ==
  /\ lastResp.route = "POST /attendance"
  /\ lastResp.status = 400
  /\ attendanceRecords # << >>
  /\ \E r \in Reqs : pc[r] # "idle"

\* C3: the student embedded in an ingested record has the name and class of
\* the first student document with the scanned cardId; when there is none, and
\* when the lookup faults, it is { name: "Unknown Student", class: "N/A" } and
\* the handler goes on with null in both cases.
C3_FirstMatchOrUnknown ==
  [][\A r \in Reqs, fault \in BOOLEAN :
       GetStudentDetailsReturn(r, fault)
         => IF fault \/ Matches(r) = {}
            THEN /\ LastPushed.student = UnknownStudent
                 /\ locals'[r].student = Null
            ELSE LET first == CHOOSE i \in Matches(r) :
                                \A j \in Matches(r) : i <= j
                 IN  /\ LastPushed.student.name = students[first].name
                     /\ LastPushed.student.class = students[first].class
    ]_vars

\* Two students share a card, and a record embeds one of them.
C3_Witness ==
  /\ Len(students) = 2
  /\ students[1].name # students[2].name
  /\ \E i \in 1..Len(attendanceRecords) :
       attendanceRecords[i].student.name = students[1].name
\* C4: GET /attendance and GET /attendance/latest always answer 200 with
\* success:true.  With the remote store up they return its documents, newest
\* write first, at most 100 and at most 10 of them.  After a remote fault
\* GET /attendance returns the whole ledger in insertion order with source
\* "memory", and GET /attendance/latest the last min(10, length) records of
\* the ledger, last one first; count is the number of entries returned.
C4_ReadsNeverFail ==
  [][\A r \in Reqs :
       /\ GetAttendanceReturn(r, FALSE)
            => /\ lastResp'.status = 200 /\ lastResp'.success
               /\ lastResp'.source = "firebase"
               /\ lastResp'.count = Min(AllLimit, Len(attendance))
               /\ Len(lastResp'.data) = lastResp'.count
               /\ \A i \in 1..lastResp'.count :
                    lastResp'.data[i] = attendance[Len(attendance) + 1 - i]
       /\ GetAttendanceReturn(r, TRUE)
            => /\ lastResp'.status = 200 /\ lastResp'.success
               /\ lastResp'.source = "memory"
               /\ lastResp'.count = Len(attendanceRecords)
               /\ lastResp'.data = attendanceRecords
       /\ GetLatestReturn(r, FALSE)
            => /\ lastResp'.status = 200 /\ lastResp'.success
               /\ lastResp'.count = Min(LatestLimit, Len(attendance))
               /\ Len(lastResp'.data) = lastResp'.count
               /\ \A i \in 1..lastResp'.count :
                    lastResp'.data[i] = attendance[Len(attendance) + 1 - i]
       /\ GetLatestReturn(r, TRUE)
            => /\ lastResp'.status = 200 /\ lastResp'.success
               /\ lastResp'.count = Min(10, Len(attendanceRecords))
               /\ Len(lastResp'.data) = lastResp'.count
               /\ \A i \in 1..lastResp'.count :
                    lastResp'.data[i]
                      = attendanceRecords[Len(attendanceRecords) + 1 - i]
       /\ pc[r] \in {"all", "latest"} => pc'[r] \in {pc[r], "idle"}
    ]_vars

\* GET /attendance/latest served from a ledger of more than ten records: ten
\* are returned, the last one pushed first, the first one pushed left out.
C4_Witness ==
  /\ lastResp.route = "GET /attendance/latest"
  /\ Len(attendanceRecords) > 10
  /\ lastResp.count = 10
  /\ lastResp.data[1].id = Len(attendanceRecords)
  /\ "recordedAt" \in DOMAIN lastResp.data[10]
  /\ lastResp.data[10].id = Len(attendanceRecords) - 9

\* C5: a remote fault during GET /attendance/today, POST /students/register
\* or GET /students is answered 500 with success:false, without data and
\* without a change to the ledger or the collections; a fault during the
\* remote write of an ingestion, GET /attendance or GET /attendance/latest is
\* absorbed (201, 200, 200).
C5_FaultSurfaced ==
  [][\A r \in Reqs :
       /\ (GetTodayReturn(r, TRUE) \/ RegisterStudentReturn(r, TRUE)
             \/ GetStudentsReturn(r, TRUE))
            => /\ lastResp'.status = 500
               /\ ~lastResp'.success
               /\ DOMAIN lastResp' = {"route", "status", "success", "message"}
               /\ UNCHANGED << attendanceRecords, students, attendance >>
       /\ SaveToFirebaseReturn(r, TRUE)
            => lastResp'.status = 201 /\ lastResp'.success
       /\ (GetAttendanceReturn(r, TRUE) \/ GetLatestReturn(r, TRUE))
            => lastResp'.status = 200 /\ lastResp'.success
    ]_vars

\* GET /attendance/today answered 500 while the ledger holds a record it
\* could have fallen back to.
C5_Witness ==
  /\ lastResp.route = "GET /attendance/today"
  /\ lastResp.status = 500
  /\ attendanceRecords # << >>

\* The response of a GET /attendance served from the ledger.
FallbackRead ==
  /\ lastResp.route = "GET /attendance"
  /\ lastResp.source = "memory"

\* C6 as claimed: DELETE /attendance/clear answers 200 and leaves the ledger
\* empty, and a GET /attendance served from the ledger after a clear, with no
\* ingestion request issued since, returns an empty sequence.
C6_Original ==
  /\ lastResp.route = "DELETE /attendance/clear"
       => lastResp.status = 200 /\ attendanceRecords = << >>
  /\ (sinceClear \in {"quiet", "pending"} /\ FallbackRead)
       => lastResp.data = << >>

\* C6 amended: DELETE /attendance/clear always answers 200 with success:true,
\* empties the ledger, reports the length the ledger had, and leaves the
\* attendance collection alone; a GET /attendance served from the ledger
\* after a clear returns an empty sequence when no ingestion request was
\* issued since the clear and none was awaiting its student lookup when the
\* clear ran.
C6_ClearThenEmptyFallback ==
  /\ [][ClearAttendance
          => /\ attendanceRecords' = << >>
             /\ lastResp'.status = 200 /\ lastResp'.success
             /\ lastResp'.message[2] = Len(attendanceRecords)
             /\ attendance' = attendance
       ]_vars
  /\ []((sinceClear = "quiet" /\ FallbackRead) => lastResp.data = << >>)

\* Records were pushed, the ledger was cleared, and a GET /attendance served
\* from the ledger then returned nothing.
C6_Witness ==
  /\ sinceClear = "quiet"
  /\ FallbackRead
  /\ lastResp.count = 0
  /\ Len(created) = 2
\* C7 as claimed: once a student is registered with a cardId, a later
\* ingestion of that cardId whose lookup does not fault embeds that student's
\* name and class, whatever the students collection held before.  Document
\* ids count the registrations, so the students registered before request r
\* arrived are those with an id up to locals[r].registered, and the newly
\* registered one among them has the greatest id.
C7_Original ==
  [][\A r \in Reqs :
       GetStudentDetailsReturn(r, FALSE)
         => LET before == { i \in Matches(r) :
                              students[i].id <= locals[r].registered }
            IN  \A i \in before :
                  (\A j \in before : students[j].id <= students[i].id)
                    => /\ LastPushed.student.name = students[i].name
                       /\ LastPushed.student.class = students[i].class
    ]_vars

\* C7 amended: a successful POST /students/register stores one new document
\* with the request's cardId, name and class ("N/A" without one) and answers
\* 201 with its id; a later ingestion of that cardId whose lookup does not
\* fault embeds a student registered with that cardId, and so the newly
\* registered one whenever no other student document carries the cardId.
C7_RegisteredIsResolvable ==
  [][\A r \in Reqs :
       /\ RegisterStudentReturn(r, FALSE)
            => /\ lastResp'.status = 201 /\ lastResp'.success
               /\ Len(students') = Len(students) + 1
               /\ \E i \in 1..Len(students') :
                    /\ students'[i].id = lastResp'.data.id
                    /\ students'[i].cardId = locals[r].cardId
                    /\ students'[i].name = locals[r].name
                    /\ students'[i].class
                         = IF locals[r].studentClass = Absent THEN "N/A"
                           ELSE locals[r].studentClass
                    /\ \A j \in 1..Len(students) :
                         students[j] = students'[IF j < i THEN j ELSE j + 1]
                    /\ \A j \in 1..Len(students) :
                         students[j].id # students'[i].id
       /\ GetStudentDetailsReturn(r, FALSE)
            => (Matches(r) # {}
                  => \E i \in Matches(r) : LastPushed.student = students[i])
    ]_vars

\* A record embeds Ann of class 5A, the only student registered.
C7_Witness ==
  /\ Len(students) = 1
  /\ \E i \in 1..Len(attendanceRecords) :
       /\ attendanceRecords[i].student.name = "Ann"
       /\ attendanceRecords[i].student.class = "5A"

\* The localIds of the records pushed before this step.
Range(seq) == { seq[i] : i \in 1..Len(seq) }

\* C8 as claimed: the localId of a record is the length of the ledger plus one
\* when it is pushed, and no two records created in one process lifetime get
\* the same localId.
C8_Original ==
  [][\A r \in Reqs, fault \in BOOLEAN :
       GetStudentDetailsReturn(r, fault)
         => /\ LastPushed.id = Len(attendanceRecords) + 1
            /\ LastPushed.id \notin Range(created)
    ]_vars

\* C8 amended: the localId of a record is the length of the ledger plus one
\* when it is pushed, so the i-th record of the ledger has localId i and the
\* records the ledger holds at one time have different localIds; a clear
\* starts the numbering again at 1.
C8_LocalIdIsPosition ==
  /\ [][\A r \in Reqs, fault \in BOOLEAN :
          GetStudentDetailsReturn(r, fault)
            => /\ LastPushed.id = Len(attendanceRecords) + 1
               /\ created' = Append(created, LastPushed.id)
       ]_vars
  /\ [](\A i \in 1..Len(attendanceRecords) : attendanceRecords[i].id = i)

\* Two records were given localId 1, one before and one after a clear.
C8_Witness ==
  /\ created = << 1, 1 >>
  /\ Len(attendanceRecords) = 1
  /\ attendanceRecords[1].id = 1

\* Every request is suspended at the await of its student lookup.
AllInLookup == \A r \in Reqs : pc[r] = "lookup"

DuplicateLocalId ==
  \E i, j \in 1..Len(attendanceRecords) :
    i # j /\ attendanceRecords[i].id = attendanceRecords[j].id

\* C9 as claimed: POST /attendance requests in flight at the same time race
\* on the ledger length, and the ledger comes to hold two records with the
\* same localId.
C9_Original == AllInLookup ~> DuplicateLocalId

\* C9 amended: however the lookups and remote writes of the POST /attendance
\* requests in flight interleave, each continuation reads the length and
\* pushes in one step, and the ledger never holds two records with the same
\* localId.
C9_NoDuplicateLocalId == ~DuplicateLocalId

\* Two ingestions that were in flight together have both pushed.
C9_Witness ==
  /\ \A r \in Reqs : pc[r] = "save"
  /\ Len(attendanceRecords) = 2
  /\ { locals[r].record.id : r \in Reqs } = { 1, 2 }

\* C10: a document is added to the attendance collection only by the one
\* remote write of an ingestion, made after that ingestion has pushed its
\* record; after the write, faulted or not, the request is over.  So the
\* collection never holds more documents than records were pushed.
C10_OneWriteAfterPush ==
  /\ [][/\ attendance' # attendance
             => \E r \in Reqs :
                  /\ pc[r] = "save" /\ pc'[r] = "idle"
                  /\ Len(attendance') = Len(attendance) + 1
                  /\ SubSeq(attendance', 1, Len(attendance)) = attendance
                  /\ attendance'[Len(attendance')].cardId = locals[r].record.cardId
                  /\ lastResp'.data.firebaseId
                       = Some(attendance'[Len(attendance')].id)
        /\ \A r \in Reqs :
             /\ (pc[r] # "save" /\ pc'[r] = "save")
                  => /\ pc[r] = "lookup"
                     /\ attendanceRecords'
                          = Append(attendanceRecords, locals'[r].record)
                     /\ attendance' = attendance
             /\ (pc[r] = "save" /\ pc'[r] # "save") => pc'[r] = "idle"
       ]_vars
  /\ [](Len(attendance) <= Len(created))

\* Two ingestions are over: one is in the remote collection, the other's
\* write faulted and is not.
C10_Witness ==
  /\ Len(created) = 2
  /\ Len(attendance) = 1
  /\ \A r \in Reqs : pc[r] = "idle"
====
